---------------------------- MODULE Spec2Model ----------------------------
(***************************************************************************)
(* A model of npm-package-size (src/main.go): the token lookup, the        *)
(* organisation listing, the fan-out of one fetchPackageSize goroutine per *)
(* package over an unbuffered channel guarded by a WaitGroup, the closer   *)
(* goroutine, the collecting loop of main, the sort and the two reporters. *)
(*                                                                         *)
(* Strings the code inspects (the lines of ~/.npmrc) are sequences of      *)
(* one-character strings.  Package names are the numbers 1..n: the keys of *)
(* a Go map, hence pairwise distinct.                                      *)
(***************************************************************************)
EXTENDS Integers, Sequences, FiniteSets, TLC

VARIABLES
    hasArg,        \* len(os.Args) >= 2
    npmrc,         \* ~/.npmrc: whether os.ReadFile can read it, and its content
    registry,      \* the upstream data: the answer to the org request and to each package request
    mainpc,        \* position of main
    fatalMsg,      \* the log.Fatal message main exited with ("" while running)
    token,         \* main's token
    toLaunch,      \* keys of packages the range loop of line 201 has not visited yet
    launched,      \* keys it has visited (a goroutine was started for each)
    wg,            \* the WaitGroup counter
    tpc,           \* position of each fetchPackageSize goroutine
    closerpc,      \* position of the anonymous goroutine of lines 206-209
    closed,        \* the results channel is closed
    closeCount,    \* number of close(results) executed
    panicked,      \* a send on the closed channel or a second close happened
    pkg,           \* main's loop variable of line 212
    packageInfos,  \* main's slice
    csvArg,        \* the data main handed to writeCSV (<<>> before the call)
    tableArg,      \* the data main handed to printTable
    csvFile,       \* content of ./package-sizes.csv (rows of fields)
    stdoutTable,   \* the rows rendered on standard output
    orgRequests,   \* number of org-list requests sent
    pkgRequests,   \* the packages whose metadata request was sent, with the Authorization token
    run,           \* 1 for the first run of the program, 2 for the second
    prevCsv,       \* the file content the previous run left
    fmtIn,         \* formatBytes: the argument of the call under test
    fmtOut         \* formatBytes: its result (NoText before the call)

vars == << hasArg, npmrc, registry, mainpc, fatalMsg, token, toLaunch, launched,
           wg, tpc, closerpc, closed, closeCount, panicked, pkg, packageInfos,
           csvArg, tableArg, csvFile, stdoutTable, orgRequests, pkgRequests,
           run, prevCsv, fmtIn, fmtOut >>

\* Largest number of packages the organisation holds.
MaxPkgs == 2

Pkgs == 1..MaxPkgs

(***************************************************************************)
(* formatBytes (lines 39-50)                                               *)
(***************************************************************************)
unit == 1024

\* "KMGTPE"[exp], exp counted from 0
UnitLetters == << "K", "M", "G", "T", "P", "E" >>

\* formatLoop with the loop test n > unit.
RECURSIVE formatLoopStrict(_, _, _)
formatLoopStrict(n, div, exp) ==
    IF n > unit THEN formatLoopStrict(n \div unit, div * unit, exp + 1)
                ELSE << div, exp >>

\* The for loop of lines 44-48: n starts at bytes / unit.
RECURSIVE formatLoop(_, _, _)
formatLoop(n, div, exp) ==
    IF n >= unit THEN formatLoop(n \div unit, div * unit, exp + 1)
                 ELSE << div, exp >>

\* fmt.Sprintf("%.2f", float64(bytes)/float64(div)) for 0 <= bytes < 2^53 and
\* div a power of 1024: the quotient is exact in float64 and is printed with two
\* decimals, rounded to nearest, ties to even.  Computed on bytes * 100 / div
\* without leaving 32 bits: bytes = q*div + r and r*100 = s*1024 + u0.
sprintf2f(bytes, div) ==
    LET q    == bytes \div div
        r    == bytes % div
        d1   == div \div unit
        u    == (r % unit) * 100
        s    == (r \div unit) * 100 + (u \div unit)
        u0   == u % unit
        f    == s \div d1
        rem  == (s % d1) * unit + u0
        up   == (2 * rem > div) \/ (2 * rem = div /\ f % 2 = 1)
        h    == IF up THEN f + 1 ELSE f
    IN  IF h = 100 THEN [whole |-> q + 1, frac |-> 0]
                   ELSE [whole |-> q, frac |-> h]

\* No text: the zero value of a string.
NoText == [whole |-> 0, decimals |-> 0, frac |-> 0, word |-> ""]

\* The result as the text's parts: <whole> or <whole>.<frac, two digits>, a
\* space, the unit word.
formatBytes(bytes) ==
    IF bytes < unit
    THEN [whole |-> bytes, decimals |-> 0, frac |-> 0, word |-> "Bytes"]
    ELSE LET de  == formatLoop(bytes \div unit, unit, 0)
             div == de[1]
             exp == de[2]
             v   == sprintf2f(bytes, div)
         IN  [whole |-> v.whole, decimals |-> 2, frac |-> v.frac,
              word |-> UnitLetters[exp + 1] \o "B"]

(***************************************************************************)
(* getNpmToken (lines 134-148)                                             *)
(***************************************************************************)
\* "//registry.npmjs.org/:_authToken="
AuthPrefix ==
    << "/", "/", "r", "e", "g", "i", "s", "t", "r", "y", ".", "n", "p", "m",
       "j", "s", ".", "o", "r", "g", "/", ":", "_", "a", "u", "t", "h", "T",
       "o", "k", "e", "n", "=" >>

\* strings.Split(s, "\n"): the pieces between the newlines, one more than there
\* are newlines.  The k-th piece runs from after the (k-1)-th newline to before
\* the k-th (the end of s for the last piece).
Newlines(s) == { i \in 1..Len(s) : s[i] = "\n" }

NthNewline(s, k) ==
    CHOOSE i \in Newlines(s) : Cardinality({ j \in Newlines(s) : j <= i }) = k

Split(s) ==
    LET n == Cardinality(Newlines(s))
        from(k) == IF k = 1 THEN 1 ELSE NthNewline(s, k - 1) + 1
        to(k) == IF k = n + 1 THEN Len(s) ELSE NthNewline(s, k) - 1
    IN  [k \in 1..(n + 1) |-> SubSeq(s, from(k), to(k))]

\* HasPrefix as strings.Contains: prefix occurs anywhere in s.
HasPrefixAnywhere(s, prefix) ==
    \E i \in 1..(Len(s) - Len(prefix) + 1) :
        SubSeq(s, i, i + Len(prefix) - 1) = prefix

\* strings.HasPrefix
HasPrefix(s, prefix) ==
    Len(s) >= Len(prefix) /\ SubSeq(s, 1, Len(prefix)) = prefix

\* strings.TrimPrefix
TrimPrefix(s, prefix) ==
    IF HasPrefix(s, prefix) THEN SubSeq(s, Len(prefix) + 1, Len(s)) ELSE s

\* The loop of lines 142-146 over the lines from index i on.
RECURSIVE FirstToken(_, _)
FirstToken(lines, i) ==
    IF i > Len(lines) THEN [err |-> TRUE, token |-> << >>]
    ELSE IF HasPrefix(lines[i], AuthPrefix)
         THEN [err |-> FALSE, token |-> TrimPrefix(lines[i], AuthPrefix)]
         ELSE FirstToken(lines, i + 1)

\* getNpmToken: os.ReadFile fails on a missing or unreadable file.
getNpmToken(file) ==
    IF ~file.readable THEN [err |-> TRUE, token |-> << >>]
    ELSE FirstToken(Split(file.content), 1)

\* The credentials files of the model.
Line1 == << "e", "m", "a", "i", "l", "=", "a" >>
TokenLines ==
    Line1 \o << "\n" >> \o AuthPrefix \o << "t", "1" >> \o << "\n" >>
        \o AuthPrefix \o << "t", "2" >>
NpmrcFiles ==
    { [readable |-> FALSE, content |-> TokenLines] }
    \cup { [readable |-> TRUE, content |-> c] :
              c \in { << >>,
                      Line1 \o << "\n" >>,
                      << " " >> \o AuthPrefix \o << "t", "1" >>,
                      SubSeq(AuthPrefix, 1, Len(AuthPrefix) - 1) \o << "t", "1" >>,
                      TokenLines } }

(***************************************************************************)
(* The registry: what each request is answered with.                       *)
(***************************************************************************)
\* A package request ends in one of: http.NewRequest fails; client.Do fails;
\* a status other than 200; a body that does not decode; a body whose
\* dist-tags.latest is no key of versions; a body giving the unpacked size;
\* or it never completes.
Failures == { "reqerr", "transport", "status", "decode", "nolatest" }
Sizes == { 2048, 1000000 }
Outcomes ==
    { [kind |-> k, size |-> 0] : k \in Failures \cup { "hang" } }
    \cup { [kind |-> "ok", size |-> n] : n \in Sizes }

Resolves(o) == o.kind = "ok"

\* The org request: a failure, or the number of keys of the decoded object.
OrgFailures == { "reqerr", "transport", "status", "decode" }
Registries ==
    { [org |-> f, n |-> 0, pkg |-> << >>] : f \in OrgFailures }
    \cup UNION { { [org |-> "ok", n |-> n, pkg |-> r] : r \in [1..n -> Outcomes] } :
                    n \in 0..MaxPkgs }

\* PackageInfo (lines 19-23) as fetchPackageSize builds it (lines 90-94).
PackageInfo(pkgName, size) ==
    [Name |-> pkgName, Size |-> formatBytes(size), RawSize |-> size]

(***************************************************************************)
(* sort.Slice (lines 221-223) with less(i, j) = RawSize[i] > RawSize[j].   *)
(* For slices of at most 12 elements Go's pdqsort is an insertion sort.    *)
(***************************************************************************)
\* less with the comparison turned round.
lessAscending(a, b) == a.RawSize < b.RawSize

less(a, b) == a.RawSize > b.RawSize

\* Insert x into the sorted sequence s from the right: x moves left while it
\* is less than its left neighbour.
RECURSIVE InsertRight(_, _)
InsertRight(s, x) ==
    IF s = << >> THEN << x >>
    ELSE IF less(x, s[Len(s)])
         THEN Append(InsertRight(SubSeq(s, 1, Len(s) - 1), x), s[Len(s)])
         ELSE Append(s, x)

\* sortSlice that leaves the slice as it is.
sortSliceNone(s) == s

RECURSIVE sortSlice(_)
sortSlice(s) ==
    IF s = << >> THEN << >>
    ELSE InsertRight(sortSlice(SubSeq(s, 1, Len(s) - 1)), s[Len(s)])

(***************************************************************************)
(* The reporters (lines 98-128): the header, then one row per entry.       *)
(***************************************************************************)
Header == << "Package Name", "Size (Bytes)", "Size (Pretty)" >>

\* []string{pkg.Name, fmt.Sprintf("%d", pkg.RawSize), pkg.Size}
Row(p) == << p.Name, p.RawSize, p.Size >>

Rows(data) == [header |-> Header, rows |-> [i \in 1..Len(data) |-> Row(data[i])]]

\* Nothing written.
NoRows == [header |-> << >>, rows |-> << >>]

\* The zero value of PackageInfo.
ZeroInfo == [Name |-> 0, Size |-> NoText, RawSize |-> 0]

Init ==
    /\ hasArg \in BOOLEAN
    /\ npmrc \in NpmrcFiles
    /\ registry \in Registries
    /\ mainpc = "args"
    /\ fatalMsg = ""
    /\ token = << >>
    /\ toLaunch = {}
    /\ launched = {}
    /\ wg = 0
    /\ tpc = [p \in Pkgs |-> "idle"]
    /\ closerpc = "idle"
    /\ closed = FALSE
    /\ closeCount = 0
    /\ panicked = FALSE
    /\ pkg = ZeroInfo
    /\ packageInfos = << >>
    /\ csvArg = << >>
    /\ tableArg = << >>
    /\ csvFile = NoRows
    /\ stdoutTable = NoRows
    /\ orgRequests = 0
    /\ pkgRequests = {}
    /\ run = 1
    /\ prevCsv = NoRows
    /\ fmtIn = 0
    /\ fmtOut = NoText

(***************************************************************************)
(* main (lines 178-234)                                                    *)
(***************************************************************************)
\* The messages of main's fatal exits.
MsgNoArg == "Please provide the organization name as a command-line argument."
MsgToken == "Failed to retrieve npm token"
MsgOrg == "Failed to fetch packages"
MsgNoPackages == "No packages found for org"
MsgNoSizes == "No package sizes retrieved for org"
MsgWrite == "Failed to write CSV"

\* log.Fatal / log.Fatalf: the message is printed and the process exits.
Fatal(msg) == mainpc' = "fatal" /\ fatalMsg' = msg

\* The process is alive: main has not returned or exited, no goroutine panicked.
Running == mainpc \notin { "done", "fatal" } /\ ~panicked

\* Lines 179-182.
MainArgs ==
    /\ Running /\ mainpc = "args"
    /\ IF ~hasArg THEN Fatal(MsgNoArg)
                  ELSE mainpc' = "token" /\ fatalMsg' = fatalMsg
    /\ UNCHANGED << hasArg, npmrc, registry, token, toLaunch, launched, wg, tpc,
                    closerpc, closed, closeCount, panicked, pkg, packageInfos,
                    csvArg, tableArg, csvFile, stdoutTable, orgRequests,
                    pkgRequests, run, prevCsv, fmtIn, fmtOut >>

\* Lines 184-187.
MainToken ==
    /\ Running /\ mainpc = "token"
    /\ LET r == getNpmToken(npmrc)
       IN  IF r.err
           THEN Fatal(MsgToken) /\ token' = token
           ELSE mainpc' = "org" /\ fatalMsg' = fatalMsg /\ token' = r.token
    /\ UNCHANGED << hasArg, npmrc, registry, toLaunch, launched, wg, tpc,
                    closerpc, closed, closeCount, panicked, pkg, packageInfos,
                    csvArg, tableArg, csvFile, stdoutTable, orgRequests,
                    pkgRequests, run, prevCsv, fmtIn, fmtOut >>

\* fetchOrgPackages (lines 151-175): the request is sent unless http.NewRequest fails.
orgRequestSent(reg) == reg.org # "reqerr"

\* noPackages without the test.
noPackagesNever(n) == FALSE

\* Line 194: len(packages) == 0.
noPackages(n) == n = 0

\* Lines 189-199: fetchOrgPackages, its error, the empty organisation, and the
\* channel and WaitGroup of a run that goes on.
MainFetchOrg ==
    /\ Running /\ mainpc = "org"
    /\ orgRequests' = IF orgRequestSent(registry) THEN orgRequests + 1 ELSE orgRequests
    /\ IF registry.org # "ok"
       THEN Fatal(MsgOrg) /\ toLaunch' = toLaunch
       ELSE IF noPackages(registry.n)
            THEN Fatal(MsgNoPackages) /\ toLaunch' = toLaunch
            ELSE mainpc' = "launch" /\ fatalMsg' = fatalMsg /\ toLaunch' = 1..registry.n
    /\ UNCHANGED << hasArg, npmrc, registry, token, launched, wg, tpc, closerpc,
                    closed, closeCount, panicked, pkg, packageInfos, csvArg,
                    tableArg, csvFile, stdoutTable, pkgRequests, run, prevCsv,
                    fmtIn, fmtOut >>

\* Lines 201-204, one iteration: a map is ranged over in any order.
MainLaunch(p) ==
    /\ Running /\ mainpc = "launch" /\ p \in toLaunch
    /\ wg' = wg + 1
    /\ tpc' = [tpc EXCEPT ![p] = "start"]
    /\ toLaunch' = toLaunch \ { p }
    /\ launched' = launched \cup { p }
    /\ UNCHANGED << hasArg, npmrc, registry, mainpc, fatalMsg, token, closerpc,
                    closed, closeCount, panicked, pkg, packageInfos, csvArg,
                    tableArg, csvFile, stdoutTable, orgRequests, pkgRequests,
                    run, prevCsv, fmtIn, fmtOut >>

\* Lines 206-209: the loop is over, the closer goroutine is started, and main
\* goes on to range over results.
MainGoCloser ==
    /\ Running /\ mainpc = "launch" /\ toLaunch = {}
    /\ closerpc' = "wait"
    /\ mainpc' = "range"
    /\ UNCHANGED << hasArg, npmrc, registry, fatalMsg, token, toLaunch, launched,
                    wg, tpc, closed, closeCount, panicked, pkg, packageInfos,
                    csvArg, tableArg, csvFile, stdoutTable, orgRequests,
                    pkgRequests, run, prevCsv, fmtIn, fmtOut >>

\* Line 213.
MainAppend ==
    /\ Running /\ mainpc = "append"
    /\ packageInfos' = Append(packageInfos, pkg)
    /\ mainpc' = "range"
    /\ UNCHANGED << hasArg, npmrc, registry, fatalMsg, token, toLaunch, launched,
                    wg, tpc, closerpc, closed, closeCount, panicked, pkg, csvArg,
                    tableArg, csvFile, stdoutTable, orgRequests, pkgRequests,
                    run, prevCsv, fmtIn, fmtOut >>

\* Lines 212 and 216-218: the range loop ends on the closed channel.
MainRangeEnd ==
    /\ Running /\ mainpc = "range" /\ closed
    /\ IF Len(packageInfos) = 0
       THEN Fatal(MsgNoSizes)
       ELSE mainpc' = "sort" /\ fatalMsg' = fatalMsg
    /\ UNCHANGED << hasArg, npmrc, registry, token, toLaunch, launched, wg, tpc,
                    closerpc, closed, closeCount, panicked, pkg, packageInfos,
                    csvArg, tableArg, csvFile, stdoutTable, orgRequests,
                    pkgRequests, run, prevCsv, fmtIn, fmtOut >>

\* Lines 221-223.
MainSort ==
    /\ Running /\ mainpc = "sort"
    /\ packageInfos' = sortSlice(packageInfos)
    /\ mainpc' = "csv"
    /\ UNCHANGED << hasArg, npmrc, registry, fatalMsg, token, toLaunch, launched,
                    wg, tpc, closerpc, closed, closeCount, panicked, pkg, csvArg,
                    tableArg, csvFile, stdoutTable, orgRequests, pkgRequests,
                    run, prevCsv, fmtIn, fmtOut >>

\* writeCSV (lines 98-118) when os.Create succeeds: what the file holds.
writeCSV(data) == Rows(data)

\* printTable (lines 121-128): what is rendered.
printTable(data) == Rows(data)

\* Lines 226-230: os.Create may fail (created = FALSE).
MainWriteCSV(created) ==
    /\ Running /\ mainpc = "csv"
    /\ csvArg' = packageInfos
    /\ IF created
       THEN csvFile' = writeCSV(packageInfos) /\ mainpc' = "print" /\ fatalMsg' = fatalMsg
       ELSE csvFile' = csvFile /\ Fatal(MsgWrite)
    /\ UNCHANGED << hasArg, npmrc, registry, token, toLaunch, launched, wg, tpc,
                    closerpc, closed, closeCount, panicked, pkg, packageInfos,
                    tableArg, stdoutTable, orgRequests, pkgRequests, run,
                    prevCsv, fmtIn, fmtOut >>

\* Line 233, and main returns.
MainPrintTable ==
    /\ Running /\ mainpc = "print"
    /\ tableArg' = packageInfos
    /\ stdoutTable' = printTable(packageInfos)
    /\ mainpc' = "done"
    /\ UNCHANGED << hasArg, npmrc, registry, fatalMsg, token, toLaunch, launched,
                    wg, tpc, closerpc, closed, closeCount, panicked, pkg,
                    packageInfos, csvArg, csvFile, orgRequests, pkgRequests,
                    run, prevCsv, fmtIn, fmtOut >>

(***************************************************************************)
(* fetchPackageSize (lines 53-95), one goroutine per package               *)
(***************************************************************************)
\* wgDone without the defer: the counter is left alone.
wgDoneForgotten(w) == w

\* defer wg.Done() (line 54): runs when the function returns.
wgDone(w) == w - 1

\* The goroutine returns: its deferred wg.Done runs.
Return(t) ==
    /\ tpc' = [tpc EXCEPT ![t] = "done"]
    /\ wg' = wgDone(wg)

\* Lines 55-64: the request is built; when that fails the task returns, else
\* the request is sent with the Authorization header.
TaskRequest(t) ==
    /\ Running /\ tpc[t] = "start"
    /\ IF registry.pkg[t].kind = "reqerr"
       THEN Return(t) /\ pkgRequests' = pkgRequests
       ELSE /\ tpc' = [tpc EXCEPT ![t] = "http"]
            /\ wg' = wg
            /\ pkgRequests' = pkgRequests \cup { [name |-> t, bearer |-> token] }
    /\ UNCHANGED << hasArg, npmrc, registry, mainpc, fatalMsg, token, toLaunch,
                    launched, closerpc, closed, closeCount, panicked, pkg,
                    packageInfos, csvArg, tableArg, csvFile, stdoutTable,
                    orgRequests, run, prevCsv, fmtIn, fmtOut >>

\* Lines 64-74: client.Do returns, unless the request hangs; a transport error
\* or a status other than 200 ends the task.
TaskResponse(t) ==
    /\ Running /\ tpc[t] = "http"
    /\ registry.pkg[t].kind # "hang"
    /\ IF registry.pkg[t].kind \in { "transport", "status" }
       THEN Return(t)
       ELSE tpc' = [tpc EXCEPT ![t] = "decode"] /\ wg' = wg
    /\ UNCHANGED << hasArg, npmrc, registry, mainpc, fatalMsg, token, toLaunch,
                    launched, closerpc, closed, closeCount, panicked, pkg,
                    packageInfos, csvArg, tableArg, csvFile, stdoutTable,
                    orgRequests, pkgRequests, run, prevCsv, fmtIn, fmtOut >>

\* decodes with the error of Decode ignored.
decodesAlways(o) == TRUE

\* exists with the lookup's second result ignored.
existsAlways(o) == TRUE

\* Line 77: the body decodes into PackageMeta.
decodes(o) == o.kind # "decode"

\* Lines 82-84: meta.Versions[meta.DistTags.Latest] exists.
exists(o) == o.kind # "nolatest"

\* Lines 76-89: the body is read and decoded and the latest version looked up.
TaskDecode(t) ==
    /\ Running /\ tpc[t] = "decode"
    /\ IF decodes(registry.pkg[t]) /\ exists(registry.pkg[t])
       THEN tpc' = [tpc EXCEPT ![t] = "send"] /\ wg' = wg
       ELSE Return(t)
    /\ UNCHANGED << hasArg, npmrc, registry, mainpc, fatalMsg, token, toLaunch,
                    launched, closerpc, closed, closeCount, panicked, pkg,
                    packageInfos, csvArg, tableArg, csvFile, stdoutTable,
                    orgRequests, pkgRequests, run, prevCsv, fmtIn, fmtOut >>

\* receiverReady for a channel with room: a send never waits.
receiverAlwaysReady == TRUE

\* results is unbuffered: a send completes when main is at the receive of its
\* range loop (line 212).
receiverReady == mainpc = "range"

\* Lines 89-95: the send.  On a closed channel a send panics; otherwise it
\* waits for the receiver, hands the value over, and the task returns.
TaskSend(t) ==
    /\ Running /\ tpc[t] = "send"
    /\ closed \/ receiverReady
    /\ IF closed
       THEN /\ panicked' = TRUE
            /\ UNCHANGED << pkg, mainpc, tpc, wg >>
       ELSE /\ pkg' = PackageInfo(t, registry.pkg[t].size)
            /\ mainpc' = "append"
            /\ Return(t)
            /\ panicked' = panicked
    /\ UNCHANGED << hasArg, npmrc, registry, fatalMsg, token, toLaunch, launched,
                    closerpc, closed, closeCount, packageInfos, csvArg, tableArg,
                    csvFile, stdoutTable, orgRequests, pkgRequests, run,
                    prevCsv, fmtIn, fmtOut >>

(***************************************************************************)
(* The closer goroutine (lines 206-209)                                    *)
(***************************************************************************)
\* waitReturns without the wait.
waitReturnsEarly(w) == TRUE

\* wg.Wait() returns when the counter is zero.
waitReturns(w) == w = 0

\* Line 207.
CloserWait ==
    /\ Running /\ closerpc = "wait"
    /\ waitReturns(wg)
    /\ closerpc' = "close"
    /\ UNCHANGED << hasArg, npmrc, registry, mainpc, fatalMsg, token, toLaunch,
                    launched, wg, tpc, closed, closeCount, panicked, pkg,
                    packageInfos, csvArg, tableArg, csvFile, stdoutTable,
                    orgRequests, pkgRequests, run, prevCsv, fmtIn, fmtOut >>

\* Line 208: closing a closed channel panics.
CloserClose ==
    /\ Running /\ closerpc = "close"
    /\ IF closed THEN panicked' = TRUE /\ closed' = closed
                 ELSE closed' = TRUE /\ panicked' = panicked
    /\ closeCount' = closeCount + 1
    /\ closerpc' = "done"
    /\ UNCHANGED << hasArg, npmrc, registry, mainpc, fatalMsg, token, toLaunch,
                    launched, wg, tpc, pkg, packageInfos, csvArg, tableArg,
                    csvFile, stdoutTable, orgRequests, pkgRequests, run,
                    prevCsv, fmtIn, fmtOut >>

Main ==
    \/ MainArgs \/ MainToken \/ MainFetchOrg
    \/ (\E p \in Pkgs : MainLaunch(p))
    \/ MainGoCloser \/ MainAppend \/ MainRangeEnd \/ MainSort
    \/ (\E created \in BOOLEAN : MainWriteCSV(created))
    \/ MainPrintTable

Task(t) == TaskRequest(t) \/ TaskResponse(t) \/ TaskDecode(t) \/ TaskSend(t)

Closer == CloserWait \/ CloserClose

Next ==
    \/ MainArgs
    \/ MainToken
    \/ MainFetchOrg
    \/ \E p \in Pkgs : MainLaunch(p)
    \/ MainGoCloser
    \/ MainAppend
    \/ MainRangeEnd
    \/ MainSort
    \/ \E created \in BOOLEAN : MainWriteCSV(created)
    \/ MainPrintTable
    \/ \E t \in Pkgs : TaskRequest(t)
    \/ \E t \in Pkgs : TaskResponse(t)
    \/ \E t \in Pkgs : TaskDecode(t)
    \/ \E t \in Pkgs : TaskSend(t)
    \/ CloserWait
    \/ CloserClose

Spec == Init /\ [][Next]_vars

(***************************************************************************)
(* Running the program a second time against the same registry: the        *)
(* process state is fresh, the file of the first run is still on disk.     *)
(***************************************************************************)
Rerun ==
    /\ mainpc = "done" /\ run = 1
    /\ run' = 2
    /\ prevCsv' = csvFile
    /\ mainpc' = "args"
    /\ fatalMsg' = ""
    /\ token' = << >>
    /\ toLaunch' = {}
    /\ launched' = {}
    /\ wg' = 0
    /\ tpc' = [p \in Pkgs |-> "idle"]
    /\ closerpc' = "idle"
    /\ closed' = FALSE
    /\ closeCount' = 0
    /\ pkg' = ZeroInfo
    /\ packageInfos' = << >>
    /\ csvArg' = << >>
    /\ tableArg' = << >>
    /\ stdoutTable' = NoRows
    /\ orgRequests' = 0
    /\ pkgRequests' = {}
    /\ UNCHANGED << hasArg, npmrc, registry, panicked, csvFile, fmtIn, fmtOut >>

NextTwice == Next \/ Rerun

SpecTwice == Init /\ [][NextTwice]_vars

(***************************************************************************)
(* Fair scheduling: the Go scheduler runs every runnable goroutine.        *)
(***************************************************************************)
\* The runs that get to the fan-out: an argument, a token, a listing.
InitFair ==
    /\ Init
    /\ hasArg
    /\ npmrc = [readable |-> TRUE, content |-> TokenLines]
    /\ registry.org = "ok"

SpecFair ==
    /\ InitFair /\ [][Next]_vars
    /\ WF_vars(Main)
    /\ WF_vars(Closer)
    /\ \A t \in Pkgs : WF_vars(Task(t))

(***************************************************************************)
(* formatBytes called on its own.                                          *)
(***************************************************************************)
\* Largest byte count of the dense range of arguments.
MaxSmallBytes == 2100

ByteInputs ==
    (-2..MaxSmallBytes)
    \cup { 1000000, 1048063, 1048064, 1048575, 1048576, 1048577, 5242880,
           1073741823, 1073741824, 1610612736, 2147483647 }

InitFormat ==
    /\ hasArg = TRUE
    /\ npmrc = [readable |-> FALSE, content |-> << >>]
    /\ registry = [org |-> "ok", n |-> 0, pkg |-> << >>]
    /\ mainpc = "args"
    /\ fatalMsg = ""
    /\ token = << >>
    /\ toLaunch = {}
    /\ launched = {}
    /\ wg = 0
    /\ tpc = [p \in Pkgs |-> "idle"]
    /\ closerpc = "idle"
    /\ closed = FALSE
    /\ closeCount = 0
    /\ panicked = FALSE
    /\ pkg = ZeroInfo
    /\ packageInfos = << >>
    /\ csvArg = << >>
    /\ tableArg = << >>
    /\ csvFile = NoRows
    /\ stdoutTable = NoRows
    /\ orgRequests = 0
    /\ pkgRequests = {}
    /\ run = 1
    /\ prevCsv = NoRows
    /\ fmtIn \in ByteInputs
    /\ fmtOut = NoText

ApplyFormat ==
    /\ fmtOut = NoText
    /\ fmtOut' = formatBytes(fmtIn)
    /\ UNCHANGED << hasArg, npmrc, registry, mainpc, fatalMsg, token, toLaunch,
                    launched, wg, tpc, closerpc, closed, closeCount, panicked,
                    pkg, packageInfos, csvArg, tableArg, csvFile, stdoutTable,
                    orgRequests, pkgRequests, run, prevCsv, fmtIn >>

NextFormat == ApplyFormat

SpecFormat == InitFormat /\ [][NextFormat]_vars

(***************************************************************************)
(* Definitions the properties share                                        *)
(***************************************************************************)
\* The packages of the organisation, and those whose fetch succeeds.
OrgPkgs == 1..registry.n
Resolved == { t \in OrgPkgs : Resolves(registry.pkg[t]) }
Dropped == { t \in OrgPkgs : registry.pkg[t].kind \in Failures }
Hung == { t \in OrgPkgs : registry.pkg[t].kind = "hang" }

Names(seq) == { seq[i].Name : i \in 1..Len(seq) }

\* seq holds exactly one entry for each package of S, the one its fetch builds.
ExactlyOnePer(seq, S) ==
    /\ Len(seq) = Cardinality(S)
    /\ Names(seq) = S
    /\ \A i \in 1..Len(seq) :
           seq[i] = PackageInfo(seq[i].Name, registry.pkg[seq[i].Name].size)

AfterRendezvous == mainpc \in { "sort", "csv", "print", "done" }

\* C1: the results channel is closed at most once, and once it is closed every
\* package has been launched and every launched task has finished (sent its
\* result or dropped out); main is at the sort or a report step only with the
\* channel closed exactly once; no send hits the closed channel and no second
\* close happens (neither panic occurs).
C1_CloseOnceAfterAllTasks ==
    /\ closeCount <= 1
    /\ ~panicked
    /\ closed <=> closeCount = 1
    /\ closed => /\ toLaunch = {}
                 /\ launched = OrgPkgs
                 /\ \A t \in launched : tpc[t] = "done"
                 /\ wg = 0
    /\ AfterRendezvous => closed
    /\ (mainpc = "fatal" /\ fatalMsg = MsgNoSizes) => closed

\* C1 happens: all MaxPkgs tasks were launched, some sent and some dropped, the
\* channel is closed and main is at the sort.
C1_Witness ==
    /\ closed /\ mainpc = "sort"
    /\ Cardinality(launched) = MaxPkgs
    /\ Len(packageInfos) >= 1
    /\ \E t \in Dropped : tpc[t] = "done"

\* C2: the sequence main hands to writeCSV, and the one it hands to printTable,
\* holds exactly one entry for each package whose fetch succeeded and none for
\* any other package; while results are collected no name is collected twice.
C2_ExactlyTheResolved ==
    /\ mainpc \in { "print", "done" } \/ (mainpc = "fatal" /\ fatalMsg = MsgWrite)
           => ExactlyOnePer(csvArg, Resolved)
    /\ mainpc = "done" => ExactlyOnePer(tableArg, Resolved)
    /\ Cardinality(Names(packageInfos)) = Len(packageInfos)
    /\ Names(packageInfos) \subseteq Resolved

\* C2 happens: a package resolved, another did not, and both reporters ran
\* with one entry.
C2_Witness ==
    /\ mainpc = "done"
    /\ Cardinality(Resolved) = 1 /\ Dropped # {}
    /\ Len(csvArg) = 1 /\ Len(tableArg) = 1

\* Rows in descending order of the size column.
RowsDescending(rows) ==
    \A i \in 1..(Len(rows) - 1) : rows[i][2] >= rows[i + 1][2]

\* C3: the rows written to the CSV file and the rows printed are in descending
\* order of RawSize, and both reporters get the same sequence in the same
\* order, whatever the order of arrival on the channel.
C3_SortedAndSameForBoth ==
    /\ RowsDescending(csvFile.rows)
    /\ RowsDescending(stdoutTable.rows)
    /\ \A i \in 1..(Len(csvArg) - 1) : csvArg[i].RawSize >= csvArg[i + 1].RawSize
    /\ mainpc = "done" => csvArg = tableArg /\ csvFile = stdoutTable
    /\ mainpc = "done" => csvFile.rows = [i \in 1..Len(csvArg) |-> Row(csvArg[i])]

\* C3 happens: at least two rows of different sizes were written and printed.
C3_Witness ==
    /\ mainpc = "done"
    /\ Len(csvFile.rows) >= 2
    /\ csvFile.rows[1][2] > csvFile.rows[Len(csvFile.rows)][2]
    /\ stdoutTable.rows = csvFile.rows

\* C4: a package whose fetch fails never reaches the send and contributes no
\* entry; no fatal exit is caused by it: once packages were launched main exits
\* fatally only for an empty result (and then no package resolved) or a failed
\* write; every package that resolves is reported with the entry its own
\* response gives, whatever the other packages did.
C4_FailureContained ==
    /\ \A t \in Dropped :
           /\ tpc[t] # "send"
           /\ t \notin Names(packageInfos)
           /\ pkg.Name # t
    /\ (mainpc = "fatal" /\ launched # {}) =>
           \/ fatalMsg = MsgNoSizes /\ Resolved = {}
           \/ fatalMsg = MsgWrite /\ Resolved # {}
    /\ (mainpc \in { "print", "done" }) =>
           \A u \in Resolved :
               \E i \in 1..Len(csvArg) :
                   csvArg[i] = PackageInfo(u, registry.pkg[u].size)

\* C4 happens: a package failed (its task finished), another resolved, and the
\* run reached both reporters with the other's entry.
C4_Witness ==
    /\ mainpc = "done"
    /\ \E t \in Dropped : tpc[t] = "done"
    /\ Resolved # {}
    /\ Len(csvArg) = Cardinality(Resolved)

\* The run got past the token and the org listing.
OrgListed == hasArg /\ ~getNpmToken(npmrc).err /\ registry.org = "ok"

\* C5: the 'No packages found' exit happens exactly when the listing returns
\* zero packages, and then no task was launched and no package request sent;
\* the 'No package sizes retrieved' exit happens exactly when at least one
\* package was listed and every fetch dropped.
C5_TwoEmptyOutcomes ==
    /\ MsgNoPackages # MsgNoSizes
    /\ fatalMsg = MsgNoPackages =>
           /\ OrgListed /\ registry.n = 0
           /\ launched = {} /\ wg = 0 /\ pkgRequests = {}
           /\ \A t \in Pkgs : tpc[t] = "idle"
    /\ fatalMsg = MsgNoSizes =>
           /\ OrgListed /\ registry.n >= 1
           /\ launched = OrgPkgs
           /\ OrgPkgs = Dropped
    /\ (OrgListed /\ registry.n = 0 /\ mainpc \notin { "args", "token", "org" }) =>
           mainpc = "fatal" /\ fatalMsg = MsgNoPackages
    /\ (OrgListed /\ registry.n >= 1 /\ OrgPkgs = Dropped
          /\ mainpc \in { "sort", "csv", "print", "done", "fatal" }) =>
           mainpc = "fatal" /\ fatalMsg = MsgNoSizes

\* C5 happens: several packages were launched, all dropped, and main exited
\* with 'No package sizes retrieved'.
C5_Witness ==
    /\ mainpc = "fatal" /\ fatalMsg = MsgNoSizes
    /\ Cardinality(launched) >= 2

\* The file cannot be read, or none of its lines starts with the prefix.
NoTokenLine(file) ==
    \/ ~file.readable
    \/ LET lines == Split(file.content)
       IN  \A i \in 1..Len(lines) :
               \E j \in 1..Len(AuthPrefix) :
                   Len(lines[i]) < j \/ lines[i][j] # AuthPrefix[j]

\* C6: with a credentials file that is unreadable or has no line starting with
\* the prefix, no request is ever sent (neither the org request nor a package
\* request, and no task is launched), and once main is past the token step it
\* has exited with the token failure.
C6_NoTokenNoRequest ==
    NoTokenLine(npmrc) =>
        /\ orgRequests = 0 /\ pkgRequests = {} /\ launched = {}
        /\ (hasArg /\ mainpc \notin { "args", "token" }) =>
               mainpc = "fatal" /\ fatalMsg = MsgToken

\* C6 happens: a readable file with a line that holds the prefix after a
\* leading space, and main exited with the token failure.
C6_Witness ==
    /\ mainpc = "fatal" /\ fatalMsg = MsgToken
    /\ npmrc.readable /\ Len(npmrc.content) > Len(AuthPrefix)

\* Both runs ended with the file written.
BothRunsDone == run = 2 /\ mainpc = "done"

SizeColumn(rows) == [i \in 1..Len(rows) |-> rows[i][2]]
RowSet(rows) == { rows[i] : i \in 1..Len(rows) }

\* No two packages that resolve have the same unpacked size.
NoTies == \A t, u \in Resolved : t # u => registry.pkg[t].size # registry.pkg[u].size

RECURSIVE IterDiv(_, _)
IterDiv(b, k) == IF k = 0 THEN b ELSE IterDiv(b \div 1024, k - 1)

BelowUnit(b, k) == IterDiv(b, k) < 1024

TopUnit == Len(UnitLetters)

SmallestK(b) ==
    IF \E k \in 1..TopUnit : BelowUnit(b, k)
    THEN CHOOSE k \in 1..TopUnit :
             BelowUnit(b, k) /\ \A j \in 1..(k - 1) : ~BelowUnit(b, j)
    ELSE TopUnit

LargestK(b) ==
    IF \E k \in 1..TopUnit : BelowUnit(b, k)
    THEN CHOOSE k \in 1..TopUnit :
             BelowUnit(b, k) /\ \A j \in (k + 1)..TopUnit : ~BelowUnit(b, j)
    ELSE TopUnit

RECURSIVE Pow1024(_)
Pow1024(k) == IF k = 0 THEN 1 ELSE 1024 * Pow1024(k - 1)

Abs(x) == IF x < 0 THEN -x ELSE x

\* out shows b / 1024^k with two decimals: its integer part is that of the
\* quotient or one more (rounding up), and where the products fit 32 bits the
\* printed value is within half a hundredth of b / 1024^k.
ShowsQuotient(out, b, k) ==
    /\ out.decimals = 2
    /\ out.frac \in 0..99
    /\ out.whole \in { IterDiv(b, k), IterDiv(b, k) + 1 }
    /\ (b < 10000000 /\ k <= 2) =>
           Abs((100 * out.whole + out.frac) * Pow1024(k) - 100 * b)
               <= Pow1024(k) \div 2

FormatsWithK(out, b, k) ==
    /\ out.word = UnitLetters[k] \o "B"
    /\ ShowsQuotient(out, b, k)

FormatsAsBytes(out, b) ==
    out = [whole |-> b, decimals |-> 0, frac |-> 0, word |-> "Bytes"]

\* C8 as stated: below 1024 the result is '<b> Bytes'; from 1024 on the unit is
\* the k-th of K,M,G,T,P,E and the value b / 1024^k for the largest k with
\* b / 1024^k < 1024.
C8_LargestK ==
    fmtOut # NoText =>
        IF fmtIn < 1024 THEN FormatsAsBytes(fmtOut, fmtIn)
        ELSE FormatsWithK(fmtOut, fmtIn, LargestK(fmtIn))

\* C8 amended: below 1024 the result is '<b> Bytes'; from 1024 on the unit is
\* the k-th of K,M,G,T,P,E and the value b / 1024^k for the smallest k >= 1
\* with b / 1024^k < 1024 (the top unit when there is none).
C8_SmallestK ==
    fmtOut # NoText =>
        IF fmtIn < 1024 THEN FormatsAsBytes(fmtOut, fmtIn)
        ELSE FormatsWithK(fmtOut, fmtIn, SmallestK(fmtIn))

\* C8 amended happens: 1000000 bytes was formatted as 976.56 KB.
C8_Witness ==
    /\ fmtIn = 1000000
    /\ fmtOut = [whole |-> 976, decimals |-> 2, frac |-> 56, word |-> "KB"]

\* C9 as stated: a task that has resolved its size (it is at the send) is never
\* blocked: its next step can always be taken.
C9_ResolvedTaskNeverWaits ==
    \A t \in Pkgs : (Running /\ tpc[t] = "send") => ENABLED TaskSend(t)

\* C9 amended: a running task can always take its next step, except while its
\* request hangs and at the send on the unbuffered channel, where it waits
\* exactly as long as main is not at the receive of its range loop (main is
\* still launching tasks or appending another task's result); a task that drops
\* never reaches the send.
C9_BlocksOnlyAtHttpAndSend ==
    \A t \in Pkgs :
        /\ (Running /\ tpc[t] \in { "start", "decode" }) => ENABLED Task(t)
        /\ (Running /\ tpc[t] = "http") =>
               (ENABLED Task(t) <=> registry.pkg[t].kind # "hang")
        /\ (Running /\ tpc[t] = "send") =>
               /\ ENABLED TaskSend(t) <=> mainpc = "range"
               /\ mainpc \in { "launch", "range", "append" }
               /\ Resolves(registry.pkg[t])

\* C9 amended happens: a task is at the send while main appends the result of
\* another task.
C9_Witness ==
    \E t \in Pkgs :
        /\ tpc[t] = "send" /\ mainpc = "append" /\ pkg.Name # t
        /\ ~ENABLED TaskSend(t)

Terminal == mainpc \in { "done", "fatal" }

\* C10: under fair scheduling, when no package request hangs the run reaches a
\* terminal state, and once tasks are launched they all finish and the channel
\* is closed; when a request of a listed package hangs, the channel is never
\* closed and main never reaches the sort or a report step.
C10_TerminatesUnlessHung ==
    /\ (Hung = {}) => <>Terminal
    /\ (Hung = {} /\ launched # {})
           ~> (closed /\ \A t \in OrgPkgs : tpc[t] = "done")
    /\ [](Hung # {} => ~closed /\ ~AfterRendezvous)

\* C10 happens: MaxPkgs tasks, some sent and some dropped, the channel closed
\* and the report written.
C10_Witness ==
    /\ mainpc = "done" /\ closed
    /\ Cardinality(launched) = MaxPkgs
    /\ Resolved # {} /\ Dropped # {} /\ Hung = {}

=============================================================================
